---- MODULE Spec2Model ----
(***************************************************************************)
(* A model of the multi-tenant RAG back end: the four AstraDB collections  *)
(* reached through AstraDBClient (sessions, documents, embeddings,         *)
(* messages) and the request handlers of the session, document and chat    *)
(* routers.  Requests run in parallel; every call on a collection is one   *)
(* atomic step, and the calls on the embedding and completion providers    *)
(* are folded into the step of the store call that follows them.           *)
(*                                                                         *)
(* Failures are modelled where the code provides for them: the provider    *)
(* calls with a local fallback, the store calls the client wraps in        *)
(* try/except, and the store calls inside a handler's try block.  A store  *)
(* call outside any try block (get_session, create_session, the two        *)
(* listings) is modelled as succeeding: its failure leaves the handler     *)
(* before anything is written.  A failed store call has no effect.         *)
(***************************************************************************)
EXTENDS Integers, Sequences, FiniteSets, TLC

\* ------------------------------------------------------------------ bounds
\* Spec, the whole system:
MaxSessions == 1      \* sessions ever created
MaxDocs     == 1      \* uploads that pass the ownership check
MaxTurns    == 1      \* chat queries that pass the ownership check
\* SpecTenants, several tenants' sessions filled and queried:
TenantSessions == 2
TenantDocs     == 2
TenantTurns    == 1
\* SpecChat, one session queried and listed:
ChatSessions  == 1
ChatTurns     == 2
\* SpecIndexing, one session with a file of several items, uploaded and
\* queried:
IndexSessions == 1
IndexDocs     == 1
IndexTurns    == 1
IndexChunks   == 3
\* SpecTopK, the same with a file of more items than the retriever's top_k:
TopKChunks    == 6
\* all:
MaxChunks   == 1      \* chunks and captions of one upload that get embedded
MaxClock    == 1      \* the wall clock runs from 0 to MaxClock

Users == {1, 2}
Slots == {1, 2}               \* requests in flight at the same time
Names == {"a", "b"}

\* the session ids a request may name: those ever created and one more
RequestIds(max) == 1..(max + 1)

NoSession == [sessionId |-> 0, userId |-> 0, name |-> "none"]

\* Texts are sequences of one-character strings.
Question == <<"q", "?">>
ModelAnswer == <<"o", "k">>

VARIABLES
    sessions,     \* sessions_collection: set of [sessionId, userId, name]
    documents,    \* documents_collection: set of [documentId, userId, sessionId]
    embeddings,   \* embeddings_collection: set of [id, content, metadata]
    messages,     \* messages_collection, in insertion order
    users,        \* users_collection, in insertion order: [userId, email]
    clock,        \* the last value get_current_timestamp returned
    nextSession,  \* generate_uuid for sessions
    nextDoc,      \* generate_uuid for documents
    nextTurn,     \* generate_uuid for the messages of a chat turn
    req           \* the requests in flight: slot -> handler state

vars == <<sessions, documents, embeddings, messages, users, clock,
          nextSession, nextDoc, nextTurn, req>>

stores == <<sessions, documents, embeddings, messages>>

\* ------------------------------------------------------------------ core/utils.py

\* The wall clock counts ticks, two to a second: at an even tick the
\* microsecond of datetime.utcnow() is 0, at an odd tick it is not.  Read
\* again, the clock has moved on or not.
Now == {clock, IF clock < MaxClock THEN clock + 1 ELSE clock}

Digits == <<"0", "1", "2", "3", "4", "5", "6", "7", "8", "9">>

\* datetime.isoformat(): date and time to the second (here the second
\* alone, two digits), then the fraction unless the microsecond is 0
isoformat(t) ==
    <<Digits[(t \div 20) + 1], Digits[((t \div 2) % 10) + 1]>>
    \o (IF t % 2 = 0 THEN <<>> ELSE <<".", "5">>)

\* get_current_timestamp at tick t
get_current_timestamp(t) == isoformat(t) \o <<"Z">>

\* a filter that lets every character through
IsPrintable(c) == FALSE

IsControl(c) == c \in {"NUL", "BEL", "ESC", "DEL", "BOM"}

RECURSIVE DropControl(_)
DropControl(t) ==
    IF t = <<>> THEN <<>>
    ELSE IF IsControl(Head(t)) THEN DropControl(Tail(t))
    ELSE <<Head(t)>> \o DropControl(Tail(t))

RECURSIVE NormalizeNewlines(_)
NormalizeNewlines(t) ==
    IF t = <<>> THEN <<>>
    ELSE IF Head(t) = "CR" /\ Len(t) > 1 /\ t[2] = "LF"
         THEN <<"LF">> \o NormalizeNewlines(Tail(Tail(t)))
    ELSE IF Head(t) = "CR" THEN <<"LF">> \o NormalizeNewlines(Tail(t))
    ELSE <<Head(t)>> \o NormalizeNewlines(Tail(t))

IsSpace(c) == c \in {" ", "LF", "CR", "TAB"}

RECURSIVE LStrip(_)
LStrip(t) == IF t # <<>> /\ IsSpace(Head(t)) THEN LStrip(Tail(t)) ELSE t

RECURSIVE RStrip(_)
RStrip(t) ==
    IF t # <<>> /\ IsSpace(t[Len(t)]) THEN RStrip(SubSeq(t, 1, Len(t) - 1)) ELSE t

Strip(t) == LStrip(RStrip(t))

sanitize_text_for_json(text) ==
    IF text = <<>> THEN text
    ELSE Strip(NormalizeNewlines(DropControl(text)))

\* ------------------------------------------------------------------ db/astra_client.py

\* a lookup whose filter has lost its userId clause
get_session_by_id(session_id, user_id) ==
    LET found == {s \in sessions : s.sessionId = session_id}
    IN  IF found = {} THEN NoSession ELSE CHOOSE s \in found : TRUE

get_session(session_id, user_id) ==
    LET found == {s \in sessions : s.sessionId = session_id /\ s.userId = user_id}
    IN  IF found = {} THEN NoSession ELSE CHOOSE s \in found : TRUE

\* a filter that has lost its sessionId clause
get_user_documents(session_id, user_id) ==
    {d \in documents : d.userId = user_id}

get_session_documents(session_id, user_id) ==
    {d \in documents : d.sessionId = session_id /\ d.userId = user_id}

SessionEmbeddings(session_id, user_id) ==
    {e \in embeddings : e.metadata.sessionId = session_id
                        /\ e.metadata.userId = user_id}

\* a search whose filter has lost its session clause
vector_search_by_user(user_id, session_id) ==
    {e \in embeddings : e.metadata.userId = user_id}

\* vector_search: find(filter=filter_dict); the query vector and the limit
\* are not passed on to the collection.
vector_search(user_id, session_id) ==
    {e \in embeddings : e.metadata.userId = user_id
                        /\ e.metadata.sessionId = session_id}

\* list(cursor): the records a find without a sort clause matched, in an
\* order of the store's own
RECURSIVE Listings(_)
Listings(found) ==
    IF found = {} THEN {<<>>}
    ELSE UNION {{<<e>> \o l : l \in Listings(found \ {e})} : e \in found}

\* the place of a character of a timestamp in the order of code points
CodePoint(c) ==
    IF c = "." THEN 0
    ELSE IF c = "Z" THEN 11
    ELSE CHOOSE d \in DOMAIN Digits : Digits[d] = c

\* the order in which the store sorts strings: by code point, a proper
\* prefix first
RECURSIVE StringLeq(_, _)
StringLeq(a, b) ==
    IF a = <<>> THEN TRUE
    ELSE IF b = <<>> THEN FALSE
    ELSE IF Head(a) = Head(b) THEN StringLeq(Tail(a), Tail(b))
    ELSE CodePoint(Head(a)) < CodePoint(Head(b))

\* find(filter) on messages_collection, in insertion order
FindMessages(session_id, user_id) ==
    SelectSeq(messages, LAMBDA m : m.sessionId = session_id /\ m.userId = user_id)

\* sort({"createdAt": 1}): the lists the store may return for the records
\* found, ascending by the createdAt string, equal strings in any order
RECURSIVE SortByCreatedAt(_)
SortByCreatedAt(found) ==
    IF found = {} THEN {<<>>}
    ELSE UNION {{<<m>> \o l : l \in SortByCreatedAt(found \ {m})} :
                m \in {x \in found :
                          \A y \in found : StringLeq(x.createdAt, y.createdAt)}}

\* get_session_messages: the lists the call may return
get_session_messages(session_id, user_id) ==
    LET found == FindMessages(session_id, user_id)
    IN  SortByCreatedAt({found[i] : i \in DOMAIN found})

\* ------------------------------------------------------------------ requests

\* The state of a handler: the request (op, uid, sid, name, pdf), where the
\* handler stands (pc), its local variables, and once it is done its
\* outcome and, for a 500, the call that raised (fault).
Idle ==
    [op |-> "none", pc |-> "idle", uid |-> 0, sid |-> 0,
     outcome |-> "none", fault |-> "none",
     name |-> "none", email |-> "none", pdf |-> TRUE,
     emb |-> "none", searched |-> FALSE, retrieved |-> <<>>,
     context |-> <<>>, prompt |-> <<>>, sources |-> <<>>,
     gen |-> "none", raw |-> <<>>, answer |-> <<>>, turn |-> 0, stamp |-> 0, saved |-> {},
     listing |-> <<>>,
     docId |-> 0, items |-> 0, oks |-> {}, caps |-> {}, captions |-> <<>>, chunks |-> 0, total |-> 0,
     ran |-> <<>>, failed |-> {}, counts |-> <<0, 0, 0>>, removed |-> FALSE]

Free(p) == req[p].pc = "idle"

\* A request takes the lowest free slot.
Arrives(p) == Free(p) /\ \A q \in Slots : q < p => ~Free(q)

Begin(op, u, s) == [Idle EXCEPT !.op = op, !.uid = u, !.sid = s]

Finish(r, outcome) == [r EXCEPT !.pc = "done", !.outcome = outcome]

\* the handler's except branch: a 500 after the call named fault raised
Raise(r, fault) == [r EXCEPT !.pc = "done", !.outcome = "error", !.fault = fault]

Owns(u, s) == \E x \in sessions : x.sessionId = s /\ x.userId = u

\* A handler that has made its last call returns its response before any
\* other request takes a step: returning touches no collection.
Running == \A q \in Slots : req[q].pc # "done"

\* Request p goes on as r.
Goes(p, r) == Running /\ req' = [req EXCEPT ![p] = r]

\* the handler returns (or raises its HTTPException): the slot is free again
respond(p) ==
    /\ req[p].pc = "done"
    /\ req' = [req EXCEPT ![p] = Idle]
    /\ UNCHANGED <<sessions, documents, embeddings, messages, clock,
                   nextSession, nextDoc, nextTurn, users>>

Init ==
    /\ sessions = {}
    /\ documents = {}
    /\ embeddings = {}
    /\ messages = <<>>
    /\ clock = 0
    /\ nextSession = 1
    /\ nextDoc = 1
    /\ nextTurn = 1
    /\ users = <<>>
    /\ req = [p \in Slots |-> Idle]

\* ------------------------------------------------------------------ auth/service.py

Emails == {"x", "y"}

\* get_user_by_email: find_one
get_user_by_email(email) ==
    LET found == {i \in DOMAIN users : users[i].email = email}
    IN  IF found = {} THEN 0 ELSE CHOOSE i \in found : \A j \in found : i <= j

\* POST /auth/register, register_user: the lookup of the email; an existing
\* user raises ValueError (400)
register_check(p, e) ==
    /\ Arrives(p)
    /\ LET r == [Begin("register", 0, 0) EXCEPT !.email = e]
       IN  Goes(p, IF get_user_by_email(e) # 0
                   THEN Finish(r, "bad_request")
                   ELSE [r EXCEPT !.pc = "create_user"])
    /\ UNCHANGED <<stores, users, clock, nextSession, nextDoc, nextTurn>>

\* create_user: insert_one of the record with a fresh userId; an exception
\* of the store leaves the handler (500)
register_create(p) ==
    /\ req[p].op = "register" /\ req[p].pc = "create_user"
    /\ \E ok \in BOOLEAN :
         IF ok
         THEN /\ users' = Append(users, [userId |-> Len(users) + 1,
                                         email |-> req[p].email])
              /\ Goes(p, Finish(req[p], "ok"))
         ELSE /\ users' = users
              /\ Goes(p, Raise(req[p], "create_user"))
    /\ UNCHANGED <<stores, clock, nextSession, nextDoc, nextTurn>>

\* ------------------------------------------------------------------ sessions/routes.py

\* a handler that gives a new session the lowest id no session record has
create_session_reusing(p, u, n) ==
    LET free == CHOOSE s \in 1..nextSession :
                    /\ \A x \in sessions : x.sessionId # s
                    /\ \A t \in 1..(s - 1) : \E x \in sessions : x.sessionId = t
    IN  /\ Arrives(p)
        /\ sessions' = sessions \cup {[sessionId |-> free, userId |-> u, name |-> n]}
        /\ nextSession' = nextSession + 1
        /\ Goes(p, Finish([Begin("create", u, free) EXCEPT !.name = n], "ok"))
        /\ UNCHANGED <<documents, embeddings, messages, clock, nextDoc, nextTurn,
                       users>>

\* POST /sessions/ (createdAt is not modelled)
create_session(p, u, n) ==
    /\ Arrives(p)
    /\ sessions' = sessions \cup
           {[sessionId |-> nextSession, userId |-> u, name |-> n]}
    /\ nextSession' = nextSession + 1
    /\ Goes(p, Finish([Begin("create", u, nextSession) EXCEPT !.name = n], "ok"))
    /\ UNCHANGED <<documents, embeddings, messages, clock, nextDoc, nextTurn, users>>

\* PUT /sessions/{session_id}: the ownership check
update_session_check(p, u, s, n) ==
    /\ Arrives(p)
    /\ LET r == [Begin("rename", u, s) EXCEPT !.name = n]
       IN  Goes(p, IF get_session(s, u) = NoSession
                   THEN Finish(r, "not_found")
                   ELSE [r EXCEPT !.pc = "update"])
    /\ UNCHANGED <<stores, clock, nextSession, nextDoc, nextTurn, users>>

\* update_session_name: update_one on {sessionId, userId}; an exception is
\* swallowed into False and the handler answers 500.
update_session_name(p) ==
    /\ req[p].op = "rename" /\ req[p].pc = "update"
    /\ \E ok \in BOOLEAN :
         IF ok
         THEN /\ sessions' =
                   {IF s.sessionId = req[p].sid /\ s.userId = req[p].uid
                    THEN [s EXCEPT !.name = req[p].name] ELSE s : s \in sessions}
              /\ Goes(p, Finish(req[p], "ok"))
         ELSE /\ sessions' = sessions
              /\ Goes(p, Raise(req[p], "update_session_name"))
    /\ UNCHANGED <<documents, embeddings, messages, clock,
                   nextSession, nextDoc, nextTurn, users>>

\* GET /sessions/{session_id}/documents and /messages: the ownership check
list_check(p, u, s, what) ==
    /\ Arrives(p)
    /\ LET r == Begin(what, u, s)
       IN  Goes(p, IF get_session(s, u) = NoSession
                   THEN Finish(r, "not_found")
                   ELSE [r EXCEPT !.pc = "read"])
    /\ UNCHANGED <<stores, clock, nextSession, nextDoc, nextTurn, users>>

\* the listing itself, with totalDocuments or totalMessages
list_read(p) ==
    /\ req[p].op \in {"list_documents", "list_messages"} /\ req[p].pc = "read"
    /\ IF req[p].op = "list_documents"
       THEN LET n == Cardinality(get_session_documents(req[p].sid, req[p].uid))
            IN  Goes(p, Finish([req[p] EXCEPT !.total = n], "ok"))
       ELSE \E l \in get_session_messages(req[p].sid, req[p].uid) :
                Goes(p, Finish([req[p] EXCEPT !.listing = l, !.total = Len(l)],
                               "ok"))
    /\ UNCHANGED <<stores, clock, nextSession, nextDoc, nextTurn, users>>

\* DELETE /sessions/{session_id}: the ownership check
delete_session_check(p, u, s) ==
    /\ Arrives(p)
    /\ LET r == Begin("delete", u, s)
       IN  Goes(p, IF get_session(s, u) = NoSession
                   THEN Finish(r, "not_found")
                   ELSE [r EXCEPT !.pc = "documents"])
    /\ UNCHANGED <<stores, clock, nextSession, nextDoc, nextTurn, users>>

\* a child step that raises when no record matched its filter
ChildStepStrict(r, step, i, ok, n, next) ==
    IF n = 0 THEN Raise(r, step)
    ELSE [r EXCEPT !.pc = next, !.ran = Append(@, step), !.counts[i] = n]

\* What a child step leaves in the handler: the count it reports and, when
\* the client swallowed an exception, the name of the step.
ChildStep(r, step, i, ok, n, next) ==
    [r EXCEPT !.pc = next,
              !.ran = Append(@, step),
              !.counts[i] = IF ok THEN n ELSE 0,
              !.failed = IF ok THEN @ ELSE @ \cup {step}]

\* delete_session_documents: delete_many, an exception is swallowed into 0
delete_session_documents(p) ==
    /\ req[p].op = "delete" /\ req[p].pc = "documents"
    /\ LET hit == get_session_documents(req[p].sid, req[p].uid)
       IN  \E ok \in BOOLEAN :
             /\ documents' = IF ok THEN documents \ hit ELSE documents
             /\ Goes(p, ChildStep(req[p], "documents", 1, ok, Cardinality(hit),
                                  "embeddings"))
    /\ UNCHANGED <<sessions, embeddings, messages, clock,
                   nextSession, nextDoc, nextTurn, users>>

\* delete_session_embeddings: delete_many, an exception is swallowed into 0
delete_session_embeddings(p) ==
    /\ req[p].op = "delete" /\ req[p].pc = "embeddings"
    /\ LET hit == SessionEmbeddings(req[p].sid, req[p].uid)
       IN  \E ok \in BOOLEAN :
             /\ embeddings' = IF ok THEN embeddings \ hit ELSE embeddings
             /\ Goes(p, ChildStep(req[p], "embeddings", 2, ok, Cardinality(hit),
                                  "messages"))
    /\ UNCHANGED <<sessions, documents, messages, clock,
                   nextSession, nextDoc, nextTurn, users>>

\* delete_session_messages: delete_many, an exception is swallowed into 0
delete_session_messages(p) ==
    /\ req[p].op = "delete" /\ req[p].pc = "messages"
    /\ LET hit == FindMessages(req[p].sid, req[p].uid)
           keep == SelectSeq(messages, LAMBDA m :
                       ~(m.sessionId = req[p].sid /\ m.userId = req[p].uid))
       IN  \E ok \in BOOLEAN :
             /\ messages' = IF ok THEN keep ELSE messages
             /\ Goes(p, ChildStep(req[p], "messages", 3, ok, Len(hit), "session"))
    /\ UNCHANGED <<sessions, documents, embeddings, clock,
                   nextSession, nextDoc, nextTurn, users>>

\* delete_session: delete_one; True when a record was deleted, False when
\* none matched or an exception was swallowed; on False the handler
\* answers 500.
delete_session(p) ==
    /\ req[p].op = "delete" /\ req[p].pc = "session"
    /\ LET hit == {s \in sessions : s.sessionId = req[p].sid
                                    /\ s.userId = req[p].uid}
           r == [req[p] EXCEPT !.ran = Append(@, "session")]
       IN  \E ok \in BOOLEAN :
             IF ok
             THEN /\ sessions' = sessions \ hit
                  /\ Goes(p, IF hit # {}
                             THEN Finish([r EXCEPT !.removed = TRUE], "ok")
                             ELSE Raise(r, "none_deleted"))
             ELSE /\ sessions' = sessions
                  /\ Goes(p, Raise([r EXCEPT !.failed = @ \cup {"session"}],
                                   "delete_session"))
    /\ UNCHANGED <<documents, embeddings, messages, clock,
                   nextSession, nextDoc, nextTurn, users>>

\* ------------------------------------------------------------------ chat/retriever.py

\* the retriever's default number of fragments; retrieve_relevant_docs
\* hands it to vector_search as limit
top_k == 5

\* Vectors are one-dimensional: the provider embeds the text of item i as
\* <<i>> and the question as QueryVector.
Embed(text) == <<text>>
QueryVector == Embed(2)

\* the similarity of a vector to the query vector: the nearer, the higher
Similarity(query_vector, vector) ==
    IF query_vector[1] >= vector[1]
    THEN vector[1] - query_vector[1] ELSE query_vector[1] - vector[1]

\* create_query_embedding: the provider's vector, or [] when the call raised
create_query_embedding(ok) == IF ok THEN QueryVector ELSE <<>>

\* the formatted results, in the order of the results: content and
\* metadata of every record found, and the "$similarity" of the record,
\* which a find without a sort clause does not carry (0.0)
FormatResults(results) ==
    [i \in DOMAIN results |->
        [content |-> results[i].content, metadata |-> results[i].metadata,
         similarity |-> 0]]

\* a retriever that searches whatever the embedding call returned
retrieve_relevant_docs_unguarded(query_embedding, results) ==
    [searched |-> TRUE, docs |-> FormatResults(results)]

\* retrieve_relevant_docs, from the query embedding on: the fragments it
\* returns and whether it called vector_search; results is what the call
\* of vector_search returns when it is made
retrieve_relevant_docs(query_embedding, results) ==
    IF query_embedding = <<>>
    THEN [searched |-> FALSE, docs |-> <<>>]
    ELSE [searched |-> TRUE, docs |-> FormatResults(results)]

\* the context when nothing was retrieved
NoContext == <<"No relevant information found in the uploaded documents.">>

\* a formatter that hands an empty context to the generator
format_context_blank(retrieved_docs) == <<>>

\* format_context_for_prompt: the sentinel for an empty list; otherwise, for
\* the i-th fragment, "i. content", a newline and its source line, the
\* parts joined by two newlines; a document has one file name, written here
\* as the document's id
RECURSIVE ContextParts(_, _)
ContextParts(retrieved_docs, i) ==
    IF i > Len(retrieved_docs) THEN <<>>
    ELSE (IF i > 1 THEN <<"LF", "LF">> ELSE <<>>)
         \o <<Digits[i + 1], ". ", Digits[retrieved_docs[i].content + 1], "LF",
              "[Source: ", Digits[retrieved_docs[i].metadata.documentId + 1],
              ", Page ", Digits[retrieved_docs[i].metadata.page + 1], ", ",
              retrieved_docs[i].metadata.source, "]">>
         \o ContextParts(retrieved_docs, i + 1)

format_context_for_prompt(retrieved_docs) ==
    IF retrieved_docs = <<>> THEN NoContext ELSE ContextParts(retrieved_docs, 1)

\* ------------------------------------------------------------------ chat/rag_chain.py

\* the system instruction, abbreviated
SystemPrompt == <<"You are a helpful AI assistant">>

\* conversation_history[-10:] takes the last HistoryWindow messages
HistoryWindow == 10

\* recent_history, the slice [-10:] of the history
recent_history(conversation_history) ==
    SubSeq(conversation_history,
           IF Len(conversation_history) > HistoryWindow
           THEN Len(conversation_history) - HistoryWindow + 1 ELSE 1,
           Len(conversation_history))

\* the messages generate_response sends to the completion provider: the
\* system instruction, the recent history of the roles user and assistant,
\* and the user message made of the context and the query
chat_messages(query, context, conversation_history) ==
    LET recent == SelectSeq(recent_history(conversation_history),
                            LAMBDA m : m.role \in {"user", "assistant"})
    IN  <<[role |-> "system", content |-> SystemPrompt]>>
        \o [i \in DOMAIN recent |->
               [role |-> recent[i].role, content |-> recent[i].content]]
        \o <<[role |-> "user",
              content |-> <<"Context from uploaded documents:", "LF">> \o context
                          \o <<"LF", "LF", "Question: ">> \o query]>>

\* the triple that identifies a source; source_key joins its parts with
\* "_", which no documentId and no page contains
SourceOf(doc) ==
    [documentId |-> doc.metadata.documentId, page |-> doc.metadata.page,
     source |-> doc.metadata.source]

\* a chain that lists the source of every fragment
extract_sources_all(retrieved_docs) ==
    [i \in DOMAIN retrieved_docs |-> SourceOf(retrieved_docs[i])]

\* the loop of extract_sources, with the sources and the keys seen so far
RECURSIVE ExtractLoop(_, _, _)
ExtractLoop(retrieved_docs, sources, seen_sources) ==
    IF retrieved_docs = <<>> THEN sources
    ELSE LET source == SourceOf(Head(retrieved_docs))
         IN  IF source \notin seen_sources
             THEN ExtractLoop(Tail(retrieved_docs), Append(sources, source),
                              seen_sources \cup {source})
             ELSE ExtractLoop(Tail(retrieved_docs), sources, seen_sources)

extract_sources(retrieved_docs) == ExtractLoop(retrieved_docs, <<>>, {})

\* the fixed apology of generate_response, abbreviated to its first words
Fallback == <<"I", " ", "a", "p", "o", "l", "o", "g", "i", "z", "e">>

\* what the completion provider may send back
ProviderAnswers == { ModelAnswer, <<" ", "o", "NUL", "k", "CR", "LF">> }

\* a generator that answers nothing when the provider call raised
generate_response_empty(ok, completion) ==
    IF ok THEN Strip(completion) ELSE <<>>

\* generate_response: the stripped completion, or the apology when the
\* provider call raised
generate_response(ok, completion) == IF ok THEN Strip(completion) ELSE Fallback

\* ------------------------------------------------------------------ chat/routes.py

UserMessageId(turn) == 2 * turn - 1
AssistantMessageId(turn) == 2 * turn

Message(r, role, content, t) ==
    [messageId |-> IF role = "user" THEN UserMessageId(r.turn)
                   ELSE AssistantMessageId(r.turn),
     userId |-> r.uid, sessionId |-> r.sid, role |-> role,
     content |-> content, createdAt |-> get_current_timestamp(t)]

\* POST /chat/query: the ownership check
chat_query_check(p, u, s) ==
    /\ Arrives(p)
    /\ IF get_session(s, u) = NoSession
       THEN /\ Goes(p, Finish(Begin("chat", u, s), "not_found"))
            /\ nextTurn' = nextTurn
       ELSE /\ Goes(p, [Begin("chat", u, s) EXCEPT !.pc = "retrieve",
                                                  !.turn = nextTurn])
            /\ nextTurn' = nextTurn + 1
    /\ UNCHANGED <<stores, clock, nextSession, nextDoc, users>>

\* retrieve_relevant_docs: the query is embedded, then the index searched;
\* a failure of the search leaves the handler's try block (500)
chat_query_retrieve(p) ==
    /\ req[p].op = "chat" /\ req[p].pc = "retrieve"
    /\ \E embOk \in BOOLEAN, searchOk \in BOOLEAN,
          results \in Listings(vector_search(req[p].uid, req[p].sid)) :
         LET q == create_query_embedding(embOk)
             out == retrieve_relevant_docs(q, results)
             r == [req[p] EXCEPT !.emb = IF embOk THEN "ok" ELSE "failed",
                                 !.searched = out.searched]
         IN  Goes(p, IF out.searched /\ ~searchOk
                     THEN Raise(r, "vector_search")
                     ELSE [r EXCEPT !.pc = "generate", !.retrieved = out.docs,
                              !.context = format_context_for_prompt(out.docs)])
    /\ UNCHANGED <<stores, clock, nextSession, nextDoc, nextTurn, users>>

\* get_session_messages, then generate_response, sanitize_text_for_json
\* and extract_sources; the handler goes on to build the user message,
\* reading the clock for its createdAt (stamp), and calls create_message
chat_query_answer(p, completions) ==
    /\ req[p].op = "chat" /\ req[p].pc = "generate"
    /\ \E histOk \in BOOLEAN, genOk \in BOOLEAN, completion \in completions,
          t \in Now,
          conversation_history \in get_session_messages(req[p].sid, req[p].uid) :
         IF ~histOk
         THEN /\ clock' = clock
              /\ Goes(p, Raise(req[p], "get_session_messages"))
         ELSE /\ clock' = t
              /\ Goes(p, [req[p] EXCEPT
                             !.pc = "save_user",
                             !.prompt = chat_messages(Question, req[p].context,
                                                      conversation_history),
                             !.sources = extract_sources(req[p].retrieved),
                             !.gen = IF genOk THEN "ok" ELSE "failed",
                             !.raw = generate_response(genOk, completion),
                             !.answer = sanitize_text_for_json(
                                            generate_response(genOk, completion)),
                             !.stamp = t])
    /\ UNCHANGED <<stores, nextSession, nextDoc, nextTurn, users>>

chat_query_generate(p) == chat_query_answer(p, ProviderAnswers)

\* create_message for the user turn takes effect; the handler goes on to
\* build the assistant message, reading the clock again, and calls
\* create_message
chat_query_save_user(p) ==
    /\ req[p].op = "chat" /\ req[p].pc = "save_user"
    /\ \E ok \in BOOLEAN, t \in Now :
         IF ok
         THEN /\ clock' = t
              /\ messages' = Append(messages,
                     Message(req[p], "user", sanitize_text_for_json(Question),
                             req[p].stamp))
              /\ Goes(p, [req[p] EXCEPT !.pc = "save_assistant",
                                        !.saved = @ \cup {"user"},
                                        !.stamp = t])
         ELSE /\ clock' = clock
              /\ messages' = messages
              /\ Goes(p, Raise(req[p], "create_message_user"))
    /\ UNCHANGED <<sessions, documents, embeddings,
                   nextSession, nextDoc, nextTurn, users>>

\* create_message for the assistant turn takes effect, then the response
chat_query_save_assistant(p) ==
    /\ req[p].op = "chat" /\ req[p].pc = "save_assistant"
    /\ \E ok \in BOOLEAN :
         IF ok
         THEN /\ messages' = Append(messages,
                     Message(req[p], "assistant", req[p].answer, req[p].stamp))
              /\ Goes(p, Finish([req[p] EXCEPT !.saved = @ \cup {"assistant"}],
                                "ok"))
         ELSE /\ messages' = messages
              /\ Goes(p, Raise(req[p], "create_message_assistant"))
    /\ UNCHANGED <<sessions, documents, embeddings, clock,
                   nextSession, nextDoc, nextTurn, users>>

\* ------------------------------------------------------------------ documents

\* An uploaded file is a list of items: text chunks, two to a page, and
\* from the fifth item on images on page 1.  The content of text item i
\* is i, and so is the caption the provider writes for image item i.
Page(item) == IF item <= 4 THEN (item + 1) \div 2 ELSE 1
Source(item) == IF item <= 4 THEN "pdf_text" ELSE "image_caption"
ImageItems(n) == {i \in 1..n : i > 4}

\* process_pdf: the text chunks of a file of n items, in page order
text_content(n) ==
    [i \in 1..(IF n <= 4 THEN n ELSE 4) |->
        [page |-> Page(i), content |-> i, source |-> Source(i)]]

\* process_pdf: the images of a file of n items in extraction order, each
\* with its page and its index on the page (counted from 0)
images_content(n) ==
    [k \in 1..(IF n <= 4 THEN 0 ELSE n - 4) |->
        [page |-> Page(4 + k), image_index |-> k - 1, image_data |-> 4 + k,
         source |-> Source(4 + k)]]

\* the description caption_image returns when the provider call raised
\* ("Image could not be processed for description."), a text no provider
\* caption equals
FallbackCaption == 0

\* caption_image: the provider's caption, or the fallback when the call
\* raised
caption_image(ok, image_data) == IF ok THEN image_data ELSE FallbackCaption

\* a captioner that leaves out the images whose captioning failed
caption_successful_images(images_data, caps) ==
    LET done == SelectSeq(images_data, LAMBDA image : image.image_data \in caps)
    IN  [k \in DOMAIN done |->
            [page |-> done[k].page, image_index |-> done[k].image_index,
             caption |-> caption_image(TRUE, done[k].image_data),
             source |-> "image_caption"]]

\* caption_multiple_images: one entry for every image, in the order of the
\* images; caps are the images whose captioning succeeds
caption_multiple_images(images_data, caps) ==
    [k \in DOMAIN images_data |->
        [page |-> images_data[k].page,
         image_index |-> images_data[k].image_index,
         caption |-> caption_image(images_data[k].image_data \in caps,
                                   images_data[k].image_data),
         source |-> "image_caption"]]

\* the captions of a file of n items when every captioning succeeds
Captions(n) == caption_multiple_images(images_content(n), ImageItems(n))

\* create_embedding: the provider's vector, or [] when the call raised
create_embedding(ok, text) == IF ok THEN Embed(text) ELSE <<>>

\* the two loops of process_content_for_embeddings: for the text chunks and
\* then the captions, the content, the embedding call (it succeeds for the
\* items in oks) and the record to insert
EmbedItems(text_items, image_captions, oks, user_id, session_id, document_id) ==
    [i \in 1..(Len(text_items) + Len(image_captions)) |->
        LET text == i <= Len(text_items)
            item == IF text THEN text_items[i]
                    ELSE image_captions[i - Len(text_items)]
            content == IF text THEN item.content ELSE item.caption
        IN  [id |-> <<document_id, i>>, content |-> content,
             embedding |-> create_embedding(i \in oks, content),
             metadata |-> [userId |-> user_id, sessionId |-> session_id,
                           documentId |-> document_id,
                           source |-> item.source, page |-> item.page]]]

\* a loop over the items that gives up at the first embedding that fails
process_content_until_failure(text_items, image_captions, oks, user_id, session_id, document_id) ==
    LET all == EmbedItems(text_items, image_captions, oks, user_id,
                          session_id, document_id)
        failed == {i \in DOMAIN all : all[i].embedding = <<>>}
    IN  SubSeq(all, 1, IF failed = {} THEN Len(all)
                       ELSE (CHOOSE i \in failed : \A j \in failed : i <= j) - 1)

\* process_content_for_embeddings, up to the insert: embeddings_data, one
\* record for every chunk and every caption whose embedding succeeded
\* (oks), the chunks first, in the order of the items, all tagged with the
\* caller, the session and the document
process_content_for_embeddings(text_items, image_captions, oks, user_id, session_id, document_id) ==
    SelectSeq(EmbedItems(text_items, image_captions, oks, user_id,
                         session_id, document_id),
              LAMBDA e : e.embedding # <<>>)

\* an insert that is cut off after the first record of the batch
insert_embeddings_first(embeddings_data) ==
    embeddings \cup {embeddings_data[i] : i \in DOMAIN embeddings_data \cap {1}}

\* a service that calls insert_embeddings whatever embeddings_data holds
always_insert(embeddings_data) == TRUE

\* "if embeddings_data:", the guard of the insert
needs_insert(embeddings_data) == embeddings_data # <<>>

\* insert_embeddings: insert_many, the whole batch in one call
insert_embeddings(embeddings_data) ==
    embeddings \cup {embeddings_data[i] : i \in DOMAIN embeddings_data}

\* POST /documents/upload: the file-name check, then the ownership check
upload_document_check(p, u, s, pdf) ==
    /\ Arrives(p)
    /\ LET r == [Begin("upload", u, s) EXCEPT !.pdf = pdf]
       IN  IF ~pdf
           THEN /\ Goes(p, Finish(r, "bad_request"))
                /\ nextDoc' = nextDoc
           ELSE IF get_session(s, u) = NoSession
           THEN /\ Goes(p, Finish(r, "not_found"))
                /\ nextDoc' = nextDoc
           ELSE /\ Goes(p, [r EXCEPT !.pc = "process", !.docId = nextDoc])
                /\ nextDoc' = nextDoc + 1
    /\ UNCHANGED <<stores, clock, nextSession, nextTurn, users>>

\* a handler that saves the document's metadata before it processes the file
upload_document_metadata_first(p, n, caps, oks) ==
    /\ req[p].op = "upload" /\ req[p].pc = "process"
    /\ documents' = documents \cup
           {[documentId |-> req[p].docId, userId |-> req[p].uid,
             sessionId |-> req[p].sid]}
    /\ \E pdfOk \in BOOLEAN :
         LET image_captions == caption_multiple_images(images_content(n), caps)
             r == [req[p] EXCEPT !.items = n, !.oks = oks, !.caps = caps,
                                 !.captions = image_captions]
             data == process_content_for_embeddings(text_content(n),
                         image_captions, oks, r.uid, r.sid, r.docId)
         IN  IF ~pdfOk
             THEN /\ embeddings' = embeddings
                  /\ Goes(p, Raise(req[p], "process_pdf"))
             ELSE /\ embeddings' = insert_embeddings(data)
                  /\ Goes(p, [r EXCEPT !.pc = "save", !.chunks = Len(data)])
    /\ UNCHANGED <<sessions, messages, clock, nextSession, nextDoc, nextTurn, users>>

\* the S3 upload, process_pdf, the captions and the embeddings, then
\* insert_embeddings when there is anything to insert; the file has n
\* items, caps are the images whose captioning succeeds and oks the items
\* whose embedding succeeds
upload_document_process(p, n, caps, oks) ==
    /\ req[p].op = "upload" /\ req[p].pc = "process"
    /\ \E s3Ok \in BOOLEAN, pdfOk \in BOOLEAN, insertOk \in BOOLEAN :
         LET image_captions == caption_multiple_images(images_content(n), caps)
             r == [req[p] EXCEPT !.items = n, !.oks = oks, !.caps = caps,
                                 !.captions = image_captions]
             data == process_content_for_embeddings(text_content(n),
                         image_captions, oks, r.uid, r.sid, r.docId)
         IN  IF ~s3Ok
             THEN /\ embeddings' = embeddings
                  /\ Goes(p, Raise(req[p], "upload_file"))
             ELSE IF ~pdfOk
             THEN /\ embeddings' = embeddings
                  /\ Goes(p, Raise(req[p], "process_pdf"))
             ELSE IF needs_insert(data) /\ ~insertOk
             THEN /\ embeddings' = embeddings
                  /\ Goes(p, Raise(r, "insert_embeddings"))
             ELSE /\ embeddings' = IF needs_insert(data)
                                   THEN insert_embeddings(data) ELSE embeddings
                  /\ Goes(p, [r EXCEPT !.pc = "save", !.chunks = Len(data)])
    /\ UNCHANGED <<sessions, documents, messages, clock,
                   nextSession, nextDoc, nextTurn, users>>

\* create_document, then the response (uploadedAt is not modelled)
upload_document_save(p) ==
    /\ req[p].op = "upload" /\ req[p].pc = "save"
    /\ \E ok \in BOOLEAN :
         IF ok
         THEN /\ documents' = documents \cup
                    {[documentId |-> req[p].docId, userId |-> req[p].uid,
                      sessionId |-> req[p].sid]}
              /\ Goes(p, Finish(req[p], "ok"))
         ELSE /\ documents' = documents
              /\ Goes(p, Raise(req[p], "create_document"))
    /\ UNCHANGED <<sessions, embeddings, messages, clock,
                   nextSession, nextDoc, nextTurn, users>>

\* ------------------------------------------------------------------ the system

\* The handlers of each router, for requests that name the session ids ids.
\* The id counters are capped for the requests that draw a fresh id.
SessionCreate(p, maxSessions, names) ==
    nextSession <= maxSessions /\ \E u \in Users, n \in names : create_session(p, u, n)

SessionRename(p, ids) ==
    \/ \E u \in Users, s \in ids, n \in Names : update_session_check(p, u, s, n)
    \/ update_session_name(p)

SessionList(p, ids) ==
    \/ \E u \in Users, s \in ids, what \in {"list_documents", "list_messages"} :
           list_check(p, u, s, what)
    \/ list_read(p)

SessionDelete(p, ids) ==
    \/ \E u \in Users, s \in ids : delete_session_check(p, u, s)
    \/ delete_session_documents(p)
    \/ delete_session_embeddings(p)
    \/ delete_session_messages(p)
    \/ delete_session(p)

ChatQuery(p, ids, maxTurns) ==
    \/ \E u \in Users, s \in ids :
           (Owns(u, s) => nextTurn <= maxTurns) /\ chat_query_check(p, u, s)
    \/ chat_query_retrieve(p)
    \/ chat_query_generate(p)
    \/ chat_query_save_user(p)
    \/ chat_query_save_assistant(p)

\* failing are the images whose captioning may fail
Upload(p, ids, maxDocs, maxItems, failing) ==
    \/ \E u \in Users, s \in ids, pdf \in BOOLEAN :
           ((pdf /\ Owns(u, s)) => nextDoc <= maxDocs)
           /\ upload_document_check(p, u, s, pdf)
    \/ \E n \in 0..maxItems, oks \in SUBSET (1..maxItems),
          failed \in SUBSET failing :
           /\ oks \subseteq 1..n /\ failed \subseteq ImageItems(n)
           /\ upload_document_process(p, n, ImageItems(n) \ failed, oks)
    \/ upload_document_save(p)

DocumentUpload(p, ids, maxDocs, maxItems) ==
    Upload(p, ids, maxDocs, maxItems, {})

\* the whole system
Next ==
    \E p \in Slots :
        \/ SessionCreate(p, MaxSessions, Names)
        \/ SessionRename(p, RequestIds(MaxSessions))
        \/ SessionList(p, RequestIds(MaxSessions))
        \/ SessionDelete(p, RequestIds(MaxSessions))
        \/ ChatQuery(p, RequestIds(MaxSessions), MaxTurns)
        \/ DocumentUpload(p, RequestIds(MaxSessions), MaxDocs, MaxChunks)
        \/ respond(p)

Spec == Init /\ [][Next]_vars

\* several tenants create sessions, upload into them and query them
NextTenants ==
    \E p \in Slots :
        \/ SessionCreate(p, TenantSessions, {"a"})
        \/ ChatQuery(p, RequestIds(TenantSessions), TenantTurns)
        \/ DocumentUpload(p, RequestIds(TenantSessions), TenantDocs, MaxChunks)
        \/ respond(p)

SpecTenants == Init /\ [][NextTenants]_vars

\* a session, the queries on it and the listings of it
NextChat ==
    \E p \in Slots :
        \/ SessionCreate(p, ChatSessions, {"a"})
        \/ ChatQuery(p, RequestIds(ChatSessions), ChatTurns)
        \/ SessionList(p, RequestIds(ChatSessions))
        \/ respond(p)

SpecChat == Init /\ [][NextChat]_vars

\* a session, a file of up to maxItems items and a query
Indexing(maxItems) ==
    \E p \in Slots :
        \/ SessionCreate(p, IndexSessions, {"a"})
        \/ ChatQuery(p, RequestIds(IndexSessions), IndexTurns)
        \/ DocumentUpload(p, RequestIds(IndexSessions), IndexDocs, maxItems)
        \/ respond(p)

NextIndexing == Indexing(IndexChunks)

SpecIndexing == Init /\ [][NextIndexing]_vars

\* the fragments of request r are listed in the order of their items
InItemOrder(r) ==
    \A i, j \in DOMAIN r.retrieved :
        i < j => r.retrieved[i].content < r.retrieved[j].content

\* the behaviours of a large file in which the store lists the records it
\* finds in the order of their items
NextTopK == Indexing(TopKChunks) /\ \A p \in Slots : InItemOrder(req'[p])

SpecTopK == Init /\ [][NextTopK]_vars

\* the characters of a completion and its length at most, in SpecAnswers
AnswerChars == {"o", " ", "TAB", "LF", "CR", "NUL", "ESC", "BOM"}
MaxAnswer == 4
AnswerTurns == 1

\* the texts of up to n characters
RECURSIVE Texts(_)
Texts(n) ==
    IF n = 0 THEN {<<>>}
    ELSE Texts(n - 1) \cup {Append(t, c) : t \in Texts(n - 1), c \in AnswerChars}

\* one session queried, the provider answering any text
NextAnswers ==
    \E p \in Slots :
        \/ SessionCreate(p, 1, {"a"})
        \/ \E u \in Users, s \in RequestIds(1) :
               (Owns(u, s) => nextTurn <= AnswerTurns) /\ chat_query_check(p, u, s)
        \/ chat_query_retrieve(p)
        \/ chat_query_answer(p, Texts(MaxAnswer))
        \/ chat_query_save_user(p)
        \/ chat_query_save_assistant(p)
        \/ respond(p)

SpecAnswers == Init /\ [][NextAnswers]_vars

\* the user records the store holds when a registration starts, at most
MaxUsers == 2

Register(p, maxUsers) ==
    \/ \E e \in Emails : Len(users) <= maxUsers /\ register_check(p, e)
    \/ register_create(p)

\* registrations
NextAuth == \E p \in Slots : Register(p, MaxUsers) \/ respond(p)

SpecAuth == Init /\ [][NextAuth]_vars

\* the documents user 1 has uploaded to session 1 in InitSources, the
\* items a file may hold, the fragments the index holds at most, and the
\* queries
SourceDocs == 2
SourceItems == 6
SourceFragments == 4
SourceTurns == 1

\* the index after uploads of SourceDocs files to session 1 of user 1, of
\* which the items given by oks were embedded
SourceIndex(oks) ==
    UNION { {data[i] : i \in DOMAIN data} :
            data \in { process_content_for_embeddings(
                           text_content(SourceItems), Captions(SourceItems),
                           oks[d], 1, 1, d) :
                       d \in 1..SourceDocs } }

RECURSIVE Total(_, _)
Total(oks, d) == IF d = 0 THEN 0 ELSE Cardinality(oks[d]) + Total(oks, d - 1)

\* user 1 has created session 1 and uploaded SourceDocs files to it
InitSources ==
    /\ sessions = {[sessionId |-> 1, userId |-> 1, name |-> "a"]}
    /\ documents = {[documentId |-> d, userId |-> 1, sessionId |-> 1] :
                     d \in 1..SourceDocs}
    /\ \E oks \in [1..SourceDocs -> SUBSET (1..SourceItems)] :
           /\ Total(oks, SourceDocs) <= SourceFragments
           /\ embeddings = SourceIndex(oks)
    /\ messages = <<>>
    /\ clock = 0
    /\ nextSession = 2
    /\ nextDoc = SourceDocs + 1
    /\ nextTurn = 1
    /\ users = <<>>
    /\ req = [p \in Slots |-> Idle]

\* queries on the indexed session
NextSources ==
    \E p \in Slots :
        \/ ChatQuery(p, RequestIds(1), SourceTurns)
        \/ respond(p)

SpecSources == InitSources /\ [][NextSources]_vars

\* the messages session 1 holds at most in InitWindow, and the queries
WindowMessages == 12
WindowTurns == 1

\* the turn of the first query after InitWindow
FirstTurn == (WindowMessages + 1) \div 2 + 1

\* what user 1 asked in turn i and what the provider answered
Asked(i) == <<"q", Digits[i + 1], "?">>
Answered(i) == <<"o", "k", Digits[i + 1]>>

\* the i-th message of the conversation in session 1, written at tick t
Earlier(i, t) ==
    LET r == [Idle EXCEPT !.uid = 1, !.sid = 1, !.turn = (i + 1) \div 2]
    IN  IF i % 2 = 1
        THEN Message(r, "user", sanitize_text_for_json(Asked(r.turn)), t)
        ELSE Message(r, "assistant", sanitize_text_for_json(Answered(r.turn)), t)

\* user 1 has created session 1 and held a conversation of n messages in
\* it, one message every tick (gap = 1) or one every second (gap = 2)
InitWindow ==
    /\ sessions = {[sessionId |-> 1, userId |-> 1, name |-> "a"]}
    /\ documents = {}
    /\ embeddings = {}
    /\ \E n \in 0..WindowMessages, gap \in {1, 2} :
           /\ messages = [i \in 1..n |-> Earlier(i, gap * i - 1)]
           /\ clock = IF n = 0 THEN 0 ELSE gap * n - 1
    /\ nextSession = 2
    /\ nextDoc = 1
    /\ nextTurn = FirstTurn
    /\ users = <<>>
    /\ req = [p \in Slots |-> Idle]

\* queries that continue the conversation
NextWindow ==
    \E p \in Slots :
        \/ ChatQuery(p, RequestIds(1), FirstTurn + WindowTurns - 1)
        \/ respond(p)

SpecWindow == InitWindow /\ [][NextWindow]_vars

\* a session that exists before the system of Spec starts and that no
\* request names: its id, and the id of its document and of its turn
Background == MaxSessions + 2

\* the request that wrote the records of session s of user u
Writer(u, s) == [Idle EXCEPT !.uid = u, !.sid = s, !.docId = s, !.turn = s]

\* the embedding record, and the messages, of a session that holds one
\* document of one chunk and one turn
StoredEmbeddings(u, s) ==
    LET data == process_content_for_embeddings(text_content(1), Captions(1),
                                                  {1}, u, s, s)
    IN  {data[i] : i \in DOMAIN data}

StoredMessages(u, s) ==
    <<Message(Writer(u, s), "user", sanitize_text_for_json(Question), 0),
      Message(Writer(u, s), "assistant", sanitize_text_for_json(ModelAnswer), 0)>>

\* some user owns the session Background, which holds one document, its
\* embedding record and the two messages of one turn
InitStored ==
    \E u \in Users :
        /\ sessions = {[sessionId |-> Background, userId |-> u, name |-> "a"]}
        /\ documents = {[documentId |-> Background, userId |-> u,
                          sessionId |-> Background]}
        /\ embeddings = StoredEmbeddings(u, Background)
        /\ messages = StoredMessages(u, Background)
        /\ clock = 0
        /\ nextSession = 1
        /\ nextDoc = 1
        /\ nextTurn = 1
        /\ users = <<>>
        /\ req = [p \in Slots |-> Idle]

\* the whole system beside the session Background
SpecStored == InitStored /\ [][Next]_vars

\* user 1 owns session 1, which holds one document, its embedding record
\* and the two messages of one turn
InitDeletes ==
    /\ sessions = {[sessionId |-> 1, userId |-> 1, name |-> "a"]}
    /\ documents = {[documentId |-> 1, userId |-> 1, sessionId |-> 1]}
    /\ embeddings = StoredEmbeddings(1, 1)
    /\ messages = StoredMessages(1, 1)
    /\ users = <<>>
    /\ clock = 0
    /\ nextSession = 2
    /\ nextDoc = 2
    /\ nextTurn = 2
    /\ req = [p \in Slots |-> Idle]

\* deletes of the session, and nothing else
NextDeletes == \E p \in Slots : SessionDelete(p, RequestIds(1)) \/ respond(p)

SpecDeletes == InitDeletes /\ [][NextDeletes]_vars

\* SpecGone, the whole system with a second session, the requests served
\* one at a time:
GoneSessions == 2
GoneDocs == 1
GoneTurns == 1

\* no other request is in flight
Alone(p) == \A q \in Slots \ {p} : req[q] = Idle

NextGone ==
    \E p \in Slots :
        /\ Alone(p)
        /\ \/ SessionCreate(p, GoneSessions, {"a"})
           \/ SessionRename(p, RequestIds(GoneSessions))
           \/ SessionList(p, RequestIds(GoneSessions))
           \/ SessionDelete(p, RequestIds(GoneSessions))
           \/ ChatQuery(p, RequestIds(GoneSessions), GoneTurns)
           \/ DocumentUpload(p, RequestIds(GoneSessions), GoneDocs, MaxChunks)
           \/ respond(p)

SpecGone == Init /\ [][NextGone]_vars

\* the uploads of files with images, any of whose captionings may fail
CaptionDocs == 1
CaptionItems == 6

NextCaptions ==
    \E p \in Slots :
        \/ SessionCreate(p, 1, {"a"})
        \/ Upload(p, RequestIds(1), CaptionDocs, CaptionItems,
                  ImageItems(CaptionItems))
        \/ respond(p)

SpecCaptions == Init /\ [][NextCaptions]_vars

\* ------------------------------------------------------------------ claims

\* C1. Tenant isolation of retrieval: every fragment a chat query has
\* retrieved for (userId, sessionId) carries that userId and that sessionId
\* in its metadata, whatever else the index holds.
TenantIsolation ==
    \A p \in Slots :
        req[p].op = "chat" =>
            \A i \in DOMAIN req[p].retrieved :
                /\ req[p].retrieved[i].metadata.userId = req[p].uid
                /\ req[p].retrieved[i].metadata.sessionId = req[p].sid

\* a query has retrieved fragments while the index holds another tenant's
\* records
TenantIsolationWitness ==
    \E p \in Slots :
        /\ req[p].op = "chat"
        /\ req[p].retrieved # <<>>
        /\ \E e \in embeddings : /\ e.metadata.userId # req[p].uid
                                 /\ e.metadata.sessionId # req[p].sid

\* the operations on one session
SessionOps ==
    {"chat", "upload", "list_documents", "list_messages", "rename", "delete"}

\* a request arrives at slot p in this step
ArrivesNow(p) == req[p].pc = "idle" /\ req'[p].pc # "idle"

\* the response to request r that holds nothing but the request and outcome
Refusal(r, outcome) ==
    Finish([Begin(r.op, r.uid, r.sid) EXCEPT !.name = r.name, !.pdf = r.pdf],
           outcome)

\* C2 as stated: a session-scoped request whose caller does not own the
\* session is answered not-found, like a request for a session that does
\* not exist, and changes no store.
NonOwnerNotFound ==
    [][\A p \in Slots :
          (/\ ArrivesNow(p)
           /\ req'[p].op \in SessionOps
           /\ ~Owns(req'[p].uid, req'[p].sid))
          => /\ req'[p] = Refusal(req'[p], "not_found")
             /\ UNCHANGED stores]_vars

\* C2, amended: a session-scoped request whose caller does not own the
\* session is refused in its first step with a response that depends on the
\* request alone, so it is the response a request for a nonexistent session
\* gets: not-found, except that an upload whose file name does not end in
\* .pdf is answered bad-request before the session is looked up. It changes
\* no store.
NonOwnerRefused ==
    [][\A p \in Slots :
          (/\ ArrivesNow(p)
           /\ req'[p].op \in SessionOps
           /\ ~Owns(req'[p].uid, req'[p].sid))
          => /\ req'[p] = Refusal(req'[p],
                              IF req'[p].op = "upload" /\ ~req'[p].pdf
                              THEN "bad_request" ELSE "not_found")
             /\ UNCHANGED stores]_vars

\* a delete by a caller who is not the owner was answered not-found while
\* the session exists and holds documents, embeddings and messages
NonOwnerRefusedWitness ==
    \E p \in Slots :
        /\ req[p].op = "delete" /\ req[p].pc = "done"
        /\ req[p].outcome = "not_found"
        /\ \E x \in sessions : x.sessionId = req[p].sid /\ x.userId # req[p].uid
        /\ \E d \in documents : d.sessionId = req[p].sid
        /\ \E e \in embeddings : e.metadata.sessionId = req[p].sid
        /\ \E i \in DOMAIN messages : messages[i].sessionId = req[p].sid

\* what the stores hold for session s
SessionDocuments(s) == {d \in documents : d.sessionId = s}
SessionVectors(s) == {e \in embeddings : e.metadata.sessionId = s}
SessionMessages(s) == SelectSeq(messages, LAMBDA m : m.sessionId = s)
SessionRecords(s) == {x \in sessions : x.sessionId = s}

ChildrenGone(s) ==
    /\ SessionDocuments(s) = {}
    /\ SessionVectors(s) = {}
    /\ SessionMessages(s) = <<>>

ChildSteps == {"documents", "embeddings", "messages"}

\* C3. Cascade completeness: when a delete of session S by its owner has
\* reported success, S has no documents, no messages and no vector-index
\* entries left, and its session record is gone.
CascadeComplete ==
    \A p \in Slots :
        (req[p].op = "delete" /\ req[p].pc = "done" /\ req[p].outcome = "ok")
        => ChildrenGone(req[p].sid) /\ SessionRecords(req[p].sid) = {}

\* C4. No orphans on step failure: when a child-deletion step of a delete
\* has failed, no embedding and no message stays tagged with the session
\* whose record that delete has removed.
NoOrphansOnStepFailure ==
    \A p \in Slots :
        (/\ req[p].op = "delete"
         /\ req[p].failed \cap ChildSteps # {}
         /\ req[p].removed)
        => SessionVectors(req[p].sid) = {} /\ SessionMessages(req[p].sid) = <<>>

CascadeSteps == <<"documents", "embeddings", "messages", "session">>

\* C5. Cascade order: a delete runs its steps in the order documents,
\* embeddings, messages, session record; the record is removed only after
\* the three child steps; and when the removal of the record fails the
\* request reports a failure, the record remains and the session's
\* documents, embeddings and messages are gone.
CascadeOrder ==
    \A p \in Slots :
        req[p].op = "delete" =>
            /\ req[p].ran = SubSeq(CascadeSteps, 1, Len(req[p].ran))
            /\ req[p].removed => req[p].ran = CascadeSteps
            /\ "session" \in req[p].failed =>
                   /\ req[p].pc = "done" /\ req[p].outcome = "error"
                   /\ SessionRecords(req[p].sid) # {}
                   /\ ChildrenGone(req[p].sid)

\* C6. Every embedding record is tagged with a session that exists and is
\* owned by the record's user.
EmbeddingsHaveSession ==
    \A e \in embeddings : Owns(e.metadata.userId, e.metadata.sessionId)

\* the tick a timestamp denotes
TimeOf(text) ==
    2 * (10 * (CodePoint(text[1]) - 1) + CodePoint(text[2]) - 1)
    + (IF text[3] = "." THEN 1 ELSE 0)

\* C7. The user message of a turn is written before its assistant message,
\* with a createdAt that is not later, and the store never holds a turn's
\* assistant message without the turn's user message before it.
UserTurnFirst ==
    \A i \in DOMAIN messages :
        messages[i].role = "assistant" =>
            \E j \in 1..(i - 1) :
                /\ messages[j].role = "user"
                /\ messages[j].messageId + 1 = messages[i].messageId
                /\ TimeOf(messages[j].createdAt) <= TimeOf(messages[i].createdAt)

Stored(id) == \E i \in DOMAIN messages : messages[i].messageId = id

\* C8. Two messages per turn: when a chat query on an owned session has
\* completed, with an answer or with an error, the store holds both
\* messages of the turn or none of them.
TwoMessagesPerTurn ==
    \A p \in Slots :
        (req[p].op = "chat" /\ req[p].pc = "done" /\ req[p].turn # 0)
        => (Stored(UserMessageId(req[p].turn))
            <=> Stored(AssistantMessageId(req[p].turn)))

MessageFaults == {"create_message_user", "create_message_assistant"}

\* the assistant message of request r is in the store, with r's answer
AnswerStored(r) ==
    \E i \in DOMAIN messages :
        /\ messages[i].messageId = AssistantMessageId(r.turn)
        /\ messages[i].role = "assistant"
        /\ messages[i].userId = r.uid /\ messages[i].sessionId = r.sid
        /\ messages[i].content = r.answer

\* C9. When the answer provider fails, generate_response returns the fixed
\* apology and does not raise: the query goes on to save its messages, a
\* 500 can only come from a create_message call, and a query that answers
\* carries the apology, has written both messages and leaves the apology in
\* the store as the assistant message.
ProviderFailureAbsorbed ==
    \A p \in Slots :
        (req[p].op = "chat" /\ req[p].gen = "failed") =>
            /\ req[p].answer = Fallback
            /\ req[p].pc \in {"save_user", "save_assistant", "done"}
            /\ req[p].pc = "done" =>
                   \/ req[p].outcome = "ok"
                   \/ req[p].outcome = "error" /\ req[p].fault \in MessageFaults
            /\ (req[p].pc = "done" /\ req[p].outcome = "ok") =>
                   /\ req[p].saved = {"user", "assistant"}
                   /\ AnswerStored(req[p])

\* a query whose provider call failed has answered
ProviderFailureWitness ==
    \E p \in Slots :
        /\ req[p].op = "chat" /\ req[p].gen = "failed"
        /\ req[p].pc = "done" /\ req[p].outcome = "ok"

\* C10. When embedding the query fails, retrieve_relevant_docs returns the
\* empty list, does not raise and does not search the index, and the turn
\* goes on: an answer is generated, a 500 can only come from the message
\* store, and a query that answers has written both messages.
EmbeddingFailureDegrades ==
    \A p \in Slots :
        (req[p].op = "chat" /\ req[p].emb = "failed") =>
            /\ req[p].retrieved = <<>>
            /\ ~req[p].searched
            /\ req[p].pc \in {"generate", "save_user", "save_assistant", "done"}
            /\ req[p].pc = "done" =>
                   \/ req[p].outcome = "ok"
                   \/ /\ req[p].outcome = "error"
                      /\ req[p].fault \in MessageFaults \cup {"get_session_messages"}
            /\ (req[p].pc = "done" /\ req[p].outcome = "ok") =>
                   /\ req[p].gen # "none" /\ req[p].answer # <<>>
                   /\ req[p].saved = {"user", "assistant"}
                   /\ AnswerStored(req[p])

\* a query whose embedding call failed has answered, with nothing
\* retrieved although the index holds records of its session
EmbeddingFailureWitness ==
    \E p \in Slots :
        /\ req[p].op = "chat" /\ req[p].emb = "failed"
        /\ req[p].pc = "done" /\ req[p].outcome = "ok"
        /\ SessionEmbeddings(req[p].sid, req[p].uid) # {}

\* the records the index holds for document d
DocRecords(d) == {e \in embeddings : e.metadata.documentId = d}

\* the items of document d that the index holds
IndexedItems(d) == {e.content : e \in DocRecords(d)}

\* an upload that has come through the embedding of its file
Embedded(r) ==
    /\ r.op = "upload"
    /\ \/ r.pc = "save"
       \/ r.pc = "done" /\ r.outcome = "ok"
       \/ r.pc = "done" /\ r.fault = "create_document"

\* C11. An embedding failure skips the item it hits and nothing else: the
\* index holds a record for exactly the items of the file whose embedding
\* succeeded, and chunksIndexed is the number of those items, which is the
\* number of records inserted for the document.
ChunksIndexedCountsSuccesses ==
    \A p \in Slots :
        Embedded(req[p]) =>
            /\ IndexedItems(req[p].docId) = req[p].oks
            /\ req[p].chunks = Cardinality(req[p].oks)
            /\ req[p].chunks = Cardinality(DocRecords(req[p].docId))

\* an upload has answered after the embedding of its second item failed and
\* that of its first and third succeeded
ChunkSkippedWitness ==
    \E p \in Slots :
        /\ req[p].op = "upload" /\ req[p].pc = "done" /\ req[p].outcome = "ok"
        /\ req[p].items = 3 /\ req[p].oks = {1, 3} /\ req[p].chunks = 2

\* an upload whose file has items, none of which could be embedded
NothingEmbedded(r) ==
    r.op = "upload" /\ r.items > 0 /\ r.oks = {}

\* C12. When the embedding of every item of a file fails the upload still
\* succeeds: no insert is issued (so none can fail), the index gets no
\* record of the document, chunksIndexed is 0, and the request ends with
\* the Document record created, or with a 500 from create_document alone.
AllEmbeddingsFailed ==
    \A p \in Slots :
        NothingEmbedded(req[p]) =>
            /\ Embedded(req[p])
            /\ req[p].chunks = 0
            /\ DocRecords(req[p].docId) = {}
            /\ (req[p].pc = "done" /\ req[p].outcome = "ok") =>
                   \E d \in documents : /\ d.documentId = req[p].docId
                                        /\ d.sessionId = req[p].sid
                                        /\ d.userId = req[p].uid

\* an upload of a file with items, none embedded, has answered
AllEmbeddingsFailedWitness ==
    \E p \in Slots :
        /\ NothingEmbedded(req[p])
        /\ req[p].pc = "done" /\ req[p].outcome = "ok"

ProcessingFaults == {"upload_file", "process_pdf", "insert_embeddings"}

\* C13. A Document record is created only after extraction and the batch
\* insert: while an upload is processing its file, and after the S3 upload,
\* the extraction or the insert has failed, there is no Document record of
\* that upload, and the failure is reported as an error.
DocumentAfterIndexing ==
    \A p \in Slots :
        req[p].op = "upload" /\ req[p].docId # 0 =>
            /\ req[p].pc = "process" =>
                   \A d \in documents : d.documentId # req[p].docId
            /\ req[p].fault \in ProcessingFaults =>
                   /\ req[p].pc = "done" /\ req[p].outcome = "error"
                   /\ \A d \in documents : d.documentId # req[p].docId

\* an upload has failed in the insert of its batch
DocumentAfterIndexingWitness ==
    \E p \in Slots :
        /\ req[p].op = "upload" /\ req[p].fault = "insert_embeddings"
        /\ req[p].oks # {}

\* the records of the batch of upload r
Batch(r) ==
    LET data == process_content_for_embeddings(text_content(r.items),
                    r.captions, r.oks, r.uid, r.sid, r.docId)
    IN  {data[i] : i \in DOMAIN data}

\* the fragments of document d that request r has retrieved
Seen(r, d) ==
    {r.retrieved[i].content :
        i \in {j \in DOMAIN r.retrieved : r.retrieved[j].metadata.documentId = d}}

TopKBound ==
    \A p \in Slots :
        req[p].op = "chat" => Len(req[p].retrieved) <= top_k

\* the similarity to the query of a fragment or a record with content c
SimilarityOf(c) == Similarity(QueryVector, Embed(c))

\* C16. The fragments a query retrieves are in the order of non-increasing
\* similarity to the query vector, and none of them is less similar to it
\* than a record of the same user and session that was left out.
SimilarityOrder ==
    \A p \in Slots :
        req[p].op = "chat" =>
            /\ \A i, j \in DOMAIN req[p].retrieved :
                   i < j => SimilarityOf(req[p].retrieved[i].content)
                            >= SimilarityOf(req[p].retrieved[j].content)
            /\ req[p].pc = "generate" /\ req[p].searched =>
                   \A e \in SessionEmbeddings(req[p].sid, req[p].uid) :
                       \/ \E i \in DOMAIN req[p].retrieved :
                              req[p].retrieved[i].content = e.content
                       \/ \A i \in DOMAIN req[p].retrieved :
                              SimilarityOf(req[p].retrieved[i].content)
                              >= SimilarityOf(e.content)

\* l lists exactly the records of the sequence found, each once
ListsExactly(l, found) ==
    /\ Len(l) = Len(found)
    /\ \A i \in DOMAIN found : \E j \in DOMAIN l : l[j] = found[i]

\* C17. get_session_messages returns exactly the messages stored for the
\* session and the user, in ascending order of the times their createdAt
\* denote, in whatever order concurrent requests inserted them.
MessagesInTimeOrder ==
    \A p \in Slots :
        (req[p].op = "list_messages" /\ req[p].pc = "done"
         /\ req[p].outcome = "ok") =>
            /\ ListsExactly(req[p].listing, FindMessages(req[p].sid, req[p].uid))
            /\ \A i, j \in DOMAIN req[p].listing :
                   i < j => TimeOf(req[p].listing[i].createdAt)
                            <= TimeOf(req[p].listing[j].createdAt)


\* a chat query that has got past its retrieval step
Retrieved(r) ==
    /\ r.op = "chat"
    /\ \/ r.pc \in {"generate", "save_user", "save_assistant"}
       \/ r.pc = "done" /\ r.outcome = "ok"
       \/ /\ r.pc = "done" /\ r.outcome = "error"
          /\ r.fault \in MessageFaults \cup {"get_session_messages"}

\* the user message of request r is in the store
QuestionStored(r) ==
    \E i \in DOMAIN messages :
        /\ messages[i].messageId = UserMessageId(r.turn)
        /\ messages[i].role = "user"
        /\ messages[i].userId = r.uid /\ messages[i].sessionId = r.sid

\* C18. The context of a query is the "no relevant information" sentinel
\* exactly when the retrieved list is empty. A query on an owned session
\* with no indexed records retrieves nothing and gets the sentinel as its
\* context; once the generator has been called the query holds an answer
\* and an empty sources list, the prompt's last message carries the
\* sentinel, and a query that answers has written both messages of its
\* turn, which the store holds (no session is deleted in SpecIndexing).
EmptyIndexAnswered ==
    \A p \in Slots :
        Retrieved(req[p]) =>
            /\ req[p].context = NoContext <=> req[p].retrieved = <<>>
            /\ SessionEmbeddings(req[p].sid, req[p].uid) = {} =>
                   /\ req[p].retrieved = <<>>
                   /\ req[p].context = NoContext
                   /\ req[p].pc \in {"save_user", "save_assistant", "done"}
                      /\ req[p].fault # "get_session_messages" =>
                          /\ req[p].gen # "none" /\ req[p].answer # <<>>
                          /\ req[p].sources = <<>>
                          /\ req[p].prompt[Len(req[p].prompt)].content
                             = <<"Context from uploaded documents:", "LF">>
                               \o NoContext \o <<"LF", "LF", "Question: ">>
                               \o Question
                   /\ (req[p].pc = "done" /\ req[p].outcome = "ok") =>
                          /\ req[p].saved = {"user", "assistant"}
                          /\ QuestionStored(req[p])
                          /\ AnswerStored(req[p])

\* a query whose search ran on a session with no indexed records has
\* answered on the sentinel context
EmptyIndexWitness ==
    \E p \in Slots :
        /\ req[p].op = "chat" /\ req[p].pc = "done" /\ req[p].outcome = "ok"
        /\ req[p].emb = "ok" /\ req[p].searched
        /\ SessionEmbeddings(req[p].sid, req[p].uid) = {}
        /\ req[p].context = NoContext /\ req[p].sources = <<>>
        /\ req[p].gen = "ok"


\* the sources of the fragments of a list
Triples(retrieved_docs) ==
    {SourceOf(retrieved_docs[i]) : i \in DOMAIN retrieved_docs}

\* where a source occurs first in a list
FirstAt(retrieved_docs, source) ==
    CHOOSE i \in DOMAIN retrieved_docs :
        /\ SourceOf(retrieved_docs[i]) = source
        /\ \A j \in 1..(i - 1) : SourceOf(retrieved_docs[j]) # source

\* C19. Dedup law: the sources a query reports hold each distinct
\* (documentId, page, source) triple of the retrieved fragments exactly
\* once, in the order in which the triples first occur among the
\* fragments, and hold no triple that no fragment has.
SourcesDeduplicated ==
    \A p \in Slots :
        (req[p].op = "chat" /\ req[p].gen # "none") =>
            LET docs == req[p].retrieved
                out == req[p].sources
            IN  /\ \A i, j \in DOMAIN out : i # j => out[i] # out[j]
                /\ {out[i] : i \in DOMAIN out} = Triples(docs)
                /\ \A i, j \in DOMAIN out :
                       i < j => FirstAt(docs, out[i]) < FirstAt(docs, out[j])

\* a query has reported two sources for four fragments, of which the first
\* and the third have one source and the second and the fourth the other
SourcesDeduplicatedWitness ==
    \E p \in Slots :
        /\ req[p].op = "chat" /\ req[p].gen # "none"
        /\ Len(req[p].retrieved) = 4 /\ Len(req[p].sources) = 2
        /\ SourceOf(req[p].retrieved[1]) = SourceOf(req[p].retrieved[3])
        /\ SourceOf(req[p].retrieved[2]) = SourceOf(req[p].retrieved[4])
        /\ req[p].sources[1] = SourceOf(req[p].retrieved[1])
        /\ req[p].sources[1].documentId # req[p].sources[2].documentId


\* the messages of r's session that were stored before r's turn
History(r) ==
    LET found == FindMessages(r.sid, r.uid)
    IN  {found[i] : i \in {j \in DOMAIN found :
                               found[j].messageId < UserMessageId(r.turn)}}

\* the i-th oldest of a set of messages
Oldest(found, i) ==
    CHOOSE m \in found :
        Cardinality({x \in found :
                        TimeOf(x.createdAt) < TimeOf(m.createdAt)}) = i - 1

\* C20. Conversation window: the message list a query sends to the
\* generator starts with the system instruction and ends with the current
\* user turn; between them stand the 10 most recent messages the session
\* held, or all of them if there are fewer, oldest first, and never more
\* than 10.
ConversationWindow ==
    \A p \in Slots :
        (req[p].op = "chat" /\ req[p].gen # "none") =>
            LET prompt == req[p].prompt
                held == History(req[p])
                n == Cardinality(held)
                kept == IF n < 10 THEN n ELSE 10
            IN  /\ Len(prompt) = kept + 2
                /\ prompt[1] = [role |-> "system", content |-> SystemPrompt]
                /\ prompt[Len(prompt)]
                   = [role |-> "user",
                      content |-> <<"Context from uploaded documents:", "LF">>
                                  \o req[p].context
                                  \o <<"LF", "LF", "Question: ">> \o Question]
                /\ \A i \in 1..kept :
                       LET m == Oldest(held, n - kept + i)
                       IN  prompt[i + 1] = [role |-> m.role, content |-> m.content]


\* the characters sanitize_text_for_json lets through no text
Unsafe == {"NUL", "BEL", "ESC", "DEL", "BOM", "CR"}

Clean(text) == \A i \in DOMAIN text : text[i] \notin Unsafe

\* C21. The answer of a chat query is the sanitized output of the
\* generator: it holds no control character other than LF and TAB, no CR,
\* no BOM and no NUL, and the assistant message stored for the turn holds
\* that same text.
AnswerSanitized ==
    \A p \in Slots :
        (req[p].op = "chat" /\ req[p].gen # "none") =>
            /\ req[p].answer = sanitize_text_for_json(req[p].raw)
            /\ Clean(req[p].answer)
            /\ Len(req[p].answer) <= Len(req[p].raw)
            /\ \A i \in DOMAIN messages :
                   messages[i].messageId = AssistantMessageId(req[p].turn) =>
                       /\ messages[i].role = "assistant"
                       /\ messages[i].content = req[p].answer
            /\ (req[p].pc = "done" /\ req[p].outcome = "ok") =>
                   AnswerStored(req[p])

\* a query has answered and stored "o LF o" for the output "o CR LF o"
AnswerSanitizedWitness ==
    \E p \in Slots :
        /\ req[p].op = "chat" /\ req[p].pc = "done" /\ req[p].outcome = "ok"
        /\ req[p].raw = <<"o", "CR", "LF", "o">>
        /\ req[p].answer = <<"o", "LF", "o">>
        /\ AnswerStored(req[p])


\* a delete of session s by user u stands before the child step named step
Deleting(step, u, s) ==
    \E p \in Slots :
        /\ req[p].op = "delete" /\ req[p].pc = step
        /\ req[p].uid = u /\ req[p].sid = s
        /\ req'[p].ran = Append(req[p].ran, step)

\* C22. Documents, embedding records and messages are write-once: a step
\* of any request leaves every record of these kinds as it is, except that
\* a child step of the cascade delete removes records of its own kind that
\* carry the deleting user's id and the deleted session's id; the messages
\* that stay keep their order.
WriteOnce ==
    [][ /\ \A d \in documents \ documents' :
               Deleting("documents", d.userId, d.sessionId)
        /\ \A e \in embeddings \ embeddings' :
               Deleting("embeddings", e.metadata.userId, e.metadata.sessionId)
        /\ \A i \in DOMAIN messages :
               \/ \E a \in DOMAIN messages' : messages'[a] = messages[i]
               \/ Deleting("messages", messages[i].userId, messages[i].sessionId)
        /\ \A i, j \in DOMAIN messages :
               i < j =>
                   \A a, b \in DOMAIN messages' :
                       (messages'[a] = messages[i] /\ messages'[b] = messages[j])
                           => a < b
      ]_vars


\* a delete has removed a session with its document, its embedding record
\* and its two messages, and the records of the session Background are all
\* there
WriteOnceWitness ==
    \E p \in Slots, u \in Users :
        /\ req[p].op = "delete" /\ req[p].pc = "done" /\ req[p].outcome = "ok"
        /\ req[p].uid = u /\ req[p].counts = <<1, 1, 2>>
        /\ documents = {[documentId |-> Background, userId |-> u,
                          sessionId |-> Background]}
        /\ embeddings = StoredEmbeddings(u, Background)
        /\ messages = StoredMessages(u, Background)


\* C23. Users are unique by email: the user store never holds two records
\* with one email, and a registration refused for its email leaves the
\* user store as it was.
UniqueEmail ==
    /\ \A i, j \in DOMAIN users : users[i].email = users[j].email => i = j
    /\ \A p \in Slots :
           (req[p].op = "register" /\ req[p].outcome = "bad_request") =>
               get_user_by_email(req[p].email) # 0


\* request p takes the step of its delete that stands at pc
DeleteStep(p, pc) ==
    req[p].op = "delete" /\ req[p].pc = pc /\ req'[p] # req[p]

\* C24. The child delete steps are idempotent: a step that finds no record
\* of the session changes no collection, reports 0 and lets the cascade go
\* on; a cascade that answers with success has removed the session record,
\* so that the cascade run again on a session whose children are gone
\* removes the record and reports zero counts.
IdempotentDelete ==
    [][ \A p \in Slots :
          /\ (DeleteStep(p, "documents")
               /\ get_session_documents(req[p].sid, req[p].uid) = {}) =>
                  /\ UNCHANGED stores
                  /\ req'[p].counts[1] = 0 /\ req'[p].pc = "embeddings"
          /\ (DeleteStep(p, "embeddings")
               /\ SessionEmbeddings(req[p].sid, req[p].uid) = {}) =>
                  /\ UNCHANGED stores
                  /\ req'[p].counts[2] = 0 /\ req'[p].pc = "messages"
          /\ (DeleteStep(p, "messages")
               /\ FindMessages(req[p].sid, req[p].uid) = <<>>) =>
                  /\ UNCHANGED stores
                  /\ req'[p].counts[3] = 0 /\ req'[p].pc = "session"
          /\ (DeleteStep(p, "session") /\ req'[p].outcome = "ok") =>
                  /\ get_session(req[p].sid, req[p].uid) # NoSession
                  /\ sessions' = sessions \ {get_session(req[p].sid, req[p].uid)}
                  /\ req'[p].counts = req[p].counts
                  /\ UNCHANGED <<documents, embeddings, messages>>
      ]_vars

\* a session that has had an upload and a query holds no record of them any
\* more, and a cascade on it has answered with success and zero counts
IdempotentDeleteWitness ==
    \E p \in Slots :
        /\ req[p].op = "delete" /\ req[p].pc = "done" /\ req[p].outcome = "ok"
        /\ req[p].counts = <<0, 0, 0>> /\ req[p].failed = {}
        /\ req[p].ran = <<"documents", "embeddings", "messages", "session">>
        /\ nextDoc > 1 /\ nextTurn > 1
        /\ sessions = {} /\ documents = {} /\ embeddings = {} /\ messages = <<>>


\* session s has been created and its record has been deleted
Gone(s) == s < nextSession /\ \A x \in sessions : x.sessionId # s

\* C25 as stated: once the record of a session is deleted no step creates
\* a session record with its id again, and every request on the session
\* that starts afterwards is answered not-found and changes no store.
GoneNotFound ==
    [][\A s \in RequestIds(GoneSessions) :
          Gone(s) =>
              /\ Gone(s)'
              /\ \A p \in Slots :
                     (ArrivesNow(p) /\ req'[p].op \in SessionOps /\ req'[p].sid = s)
                     => /\ req'[p] = Refusal(req'[p], "not_found")
                        /\ UNCHANGED stores]_vars

\* C25, amended: once the record of a session is deleted no step creates a
\* session record with its id again, and every request on the session that
\* starts afterwards is refused in its first step and changes no store: it
\* is answered not-found, except that an upload whose file name does not
\* end in .pdf is answered bad-request.
GoneIsTerminal ==
    [][\A s \in RequestIds(GoneSessions) :
          Gone(s) =>
              /\ Gone(s)'
              /\ \A p \in Slots :
                     (ArrivesNow(p) /\ req'[p].op \in SessionOps /\ req'[p].sid = s)
                     => /\ req'[p] = Refusal(req'[p],
                                         IF req'[p].op = "upload" /\ ~req'[p].pdf
                                         THEN "bad_request" ELSE "not_found")
                        /\ UNCHANGED stores]_vars

\* session 1 is gone while session 2 exists, and a query on session 1 was
\* answered not-found
GoneIsTerminalWitness ==
    \E p \in Slots :
        /\ Gone(1) /\ \E x \in sessions : x.sessionId = 2
        /\ req[p].op = "chat" /\ req[p].sid = 1
        /\ req[p].pc = "done" /\ req[p].outcome = "not_found"


\* C26. Every stored message is tagged with a session that exists and is
\* owned by the message's user, whatever the interleaving of a query on
\* the session with a delete of it.
MessagesHaveSession ==
    \A i \in DOMAIN messages : Owns(messages[i].userId, messages[i].sessionId)


\* an upload of document d is still on its way
Uploading(d) ==
    \E p \in Slots : req[p].op = "upload" /\ req[p].pc # "done" /\ req[p].docId = d

\* C27. Once an upload has completed, with success or with an error, every
\* embedding record of its document has a document record with the same
\* documentId, userId and sessionId.
EmbeddingsHaveDocument ==
    \A e \in embeddings :
        \/ Uploading(e.metadata.documentId)
        \/ \E d \in documents :
               /\ d.documentId = e.metadata.documentId
               /\ d.userId = e.metadata.userId
               /\ d.sessionId = e.metadata.sessionId


\* C28. In every session the stored messages, in the order in which they
\* were written, alternate user, assistant, user, assistant, ..., the first
\* being a user message, also when two queries on the session run at the
\* same time.
TurnsAlternate ==
    \A u \in Users, s \in RequestIds(ChatSessions) :
        LET found == FindMessages(s, u)
        IN  \A i \in DOMAIN found :
                found[i].role = IF i % 2 = 1 THEN "user" ELSE "assistant"


\* C29. Of the deletes of a session by its owner that interleave, only one
\* that finds the session record and removes it reports success, one that
\* finds the record gone reports a failure, and when a delete has completed
\* and the record is gone, the documents, embeddings and messages of the
\* session are gone too.
DeletesInterleaved ==
    [][\A p \in Slots :
          DeleteStep(p, "session") =>
              /\ req'[p].outcome = "ok" => Owns(req[p].uid, req[p].sid)
              /\ ~Owns(req[p].uid, req[p].sid) => req'[p].outcome = "error"
              /\ SessionRecords(req[p].sid)' = {} => ChildrenGone(req[p].sid)'
      ]_vars


\* the record the index holds for item i of the document of upload r
Indexed(r, i) == {e \in DocRecords(r.docId) : e.id = <<r.docId, i>>}

\* C30. A captioning failure never aborts an upload nor drops an image: an
\* upload whose file was processed has one caption entry for every image,
\* in extraction order with its page and its image index, the entry of an
\* image whose captioning failed carries the fallback description, every
\* image whose embedding succeeded is in the index as an image_caption
\* record with its caption (the fallback included) as content, and
\* chunksIndexed counts it; no upload fails in the captioning.
CaptionFailureKeepsImage ==
    \A p \in Slots :
        LET r == req[p]
            images == images_content(r.items)
        IN  /\ r.op = "upload" /\ r.pc = "done" /\ r.outcome = "error" =>
                   r.fault \in {"upload_file", "process_pdf",
                                "insert_embeddings", "create_document"}
            /\ Embedded(r) =>
                   /\ Len(r.captions) = Len(images)
                   /\ \A k \in DOMAIN images :
                          /\ r.captions[k].page = images[k].page
                          /\ r.captions[k].image_index = images[k].image_index
                          /\ r.captions[k].source = "image_caption"
                          /\ r.captions[k].caption =
                                 IF images[k].image_data \in r.caps
                                 THEN images[k].image_data ELSE FallbackCaption
                          /\ images[k].image_data \in r.oks =>
                                 \E e \in Indexed(r, images[k].image_data) :
                                     /\ e.content = r.captions[k].caption
                                     /\ e.embedding = Embed(e.content)
                                     /\ e.metadata.source = "image_caption"
                                     /\ e.metadata.page = images[k].page
                   /\ r.chunks = Cardinality(r.oks)

\* an upload has answered 200 for a file with two images: the captioning of
\* the first failed, and the index holds the fallback description for it
CaptionFailureWitness ==
    \E p \in Slots :
        /\ req[p].op = "upload" /\ req[p].pc = "done" /\ req[p].outcome = "ok"
        /\ req[p].items = 6 /\ req[p].caps = {6} /\ req[p].oks = 1..6
        /\ req[p].chunks = 6
        /\ \E e \in Indexed(req[p], 5) :
               e.content = FallbackCaption /\ e.metadata.source = "image_caption"

====
